---- MODULE Spec2Model ----
(***************************************************************************)
(* Model of the NDT HTML5 client wrapper (client_wrapper.py), of the        *)
(* browser helpers (browser_client_common.py) and of the harness that runs *)
(* a replay HTTP server for the browser (public_test.py).                  *)
(*                                                                         *)
(* One NdtHtml5SeleniumDriver object is modelled.  perform_test is split   *)
(* at its blocking browser interactions; every step contains the exception *)
(* handling the source attaches to it.  The browser (Selenium) is the      *)
(* environment: what it finds, whether a wait times out and what text an   *)
(* element holds are nondeterministic inputs.                              *)
(***************************************************************************)
EXTENDS Integers, Sequences, FiniteSets, TLC

\* the state of the driver object and of its caller
VARIABLES pc, url, browser, driver, result_values, errors, results, exc,
          ops, clock, runs, created

\* the state of the harness: the replay server, its background thread, the
\* main flow of public_test and the caller of load_url
VARIABLES hpc, server, thread, store, served, url_port, hexc, load,
          load_errors

dvars == <<pc, url, browser, driver, result_values, errors, results, exc,
           ops, clock, runs, created>>

harness == <<hpc, server, thread, store, served, url_port, hexc, load,
             load_errors>>

vars == <<pc, url, browser, driver, result_values, errors, results, exc,
          ops, clock, runs, created, hpc, server, thread, store, served,
          url_port, hexc, load, load_errors>>

(***************************************************************************)
(* Bounds of the model.                                                    *)
(***************************************************************************)
\* number of perform_test calls made on the one driver object
MaxRuns == 2
\* largest value of the wall clock read by datetime.now
MaxClock == 1

(***************************************************************************)
(* Python values.                                                          *)
(***************************************************************************)
None == [type |-> "NoneType"]
Datetime(t) == [type |-> "datetime", t |-> t]
\* a unicode string is a sequence of one-character strings
Unicode(s) == [type |-> "unicode", s |-> s]
\* a float is mantissa / 10^scale, with no trailing zero in the mantissa
Float(m, e) == [type |-> "float", m |-> m, e |-> e]

Digits == {"0", "1", "2", "5"}

DigitValue(c) ==
    CASE c = "0" -> 0 [] c = "1" -> 1 [] c = "2" -> 2 [] c = "5" -> 5

\* the texts the three metric elements of the page may show: each a text
\* float accepts and one it rejects
UploadSpeedTexts == { <<"1", "2", ".", "5">>, <<"1", ".", "2", ".", "5">> }
DownloadSpeedTexts == { <<" ", "-", "2", "0", " ">>, <<"a", "b", "c">> }
LatencyTexts == { <<".", "5", "0">>, <<>> }

RECURSIVE LStrip(_)
LStrip(s) == IF s # <<>> /\ Head(s) = " " THEN LStrip(Tail(s)) ELSE s

RECURSIVE RStrip(_)
RStrip(s) ==
    IF s # <<>> /\ s[Len(s)] = " " THEN RStrip(SubSeq(s, 1, Len(s) - 1))
    ELSE s

Strip(s) == RStrip(LStrip(s))

IsDigits(s) == \A i \in 1..Len(s) : s[i] \in Digits

RECURSIVE DigitsValue(_)
DigitsValue(s) ==
    IF s = <<>> THEN 0
    ELSE 10 * DigitsValue(SubSeq(s, 1, Len(s) - 1)) + DigitValue(s[Len(s)])

\* position of the first "." of s, or 0
DotAt(s) ==
    IF \E i \in 1..Len(s) : s[i] = "."
    THEN CHOOSE i \in 1..Len(s) :
            s[i] = "." /\ \A j \in 1..(i - 1) : s[j] # "."
    ELSE 0

RECURSIVE Normalize(_, _)
Normalize(m, e) ==
    IF e > 0 /\ m % 10 = 0 THEN Normalize(m \div 10, e - 1) ELSE <<m, e>>

\* float(x) for a unicode x: [ok |-> TRUE, val |-> Float] or a ValueError.
\* Surrounding blanks are stripped, one sign is allowed, then digits with at
\* most one "." and at least one digit.
float(x) ==
    LET s    == Strip(x.s)
        neg  == s # <<>> /\ Head(s) = "-"
        body == IF s # <<>> /\ Head(s) \in {"-", "+"} THEN Tail(s) ELSE s
        dot  == DotAt(body)
        ip   == IF dot = 0 THEN body ELSE SubSeq(body, 1, dot - 1)
        fp   == IF dot = 0 THEN <<>> ELSE SubSeq(body, dot + 1, Len(body))
        good == IsDigits(ip) /\ IsDigits(fp) /\ Len(ip) + Len(fp) > 0
        n    == Normalize(DigitsValue(ip \o fp), Len(fp))
    IN  IF good
        THEN [ok |-> TRUE,
              val |-> Float(IF neg THEN 0 - n[1] ELSE n[1], n[2])]
        ELSE [ok |-> FALSE, exc |-> "ValueError"]

(***************************************************************************)
(* Objects of client_wrapper.py.                                           *)
(***************************************************************************)
TestError(timestamp, message) ==
    [timestamp |-> timestamp, message |-> message]

\* _result_values as __init__ leaves it.  The three metric entries are
\* missing from the dict until populate_metric_values stores them; NdtResult
\* reads a missing entry as its default None, which is what the model stores.
\* The 'errors' entry refers to the list object held in the variable errors.
InitResultValues ==
    [start_time |-> None, end_time |-> None,
     c2s_start_time |-> None, s2c_start_time |-> None,
     latency |-> None, c2s_throughput |-> None, s2c_throughput |-> None]

\* NdtResult(**self._result_values): the scalar attributes are copied, the
\* errors attribute refers to the driver's own list (see ResultErrors).
NdtResult(values) ==
    [start_time |-> values.start_time, end_time |-> values.end_time,
     c2s_start_time |-> values.c2s_start_time,
     s2c_start_time |-> values.s2c_start_time,
     latency |-> values.latency,
     c2s_throughput |-> values.c2s_throughput,
     s2c_throughput |-> values.s2c_throughput]

\* what result.errors shows for the i-th returned result: all results of the
\* driver share the one list object
ResultErrors(i) == errors

\* datetime.now(pytz.utc)
now == Datetime(clock)

(***************************************************************************)
(* Browser selection.                                                      *)
(***************************************************************************)
WebDriver(name) == [type |-> "WebDriver", name |-> name, state |-> "open"]

names_FIREFOX == "firefox"
names_CHROME == "chrome"
names_EDGE == "edge"
names_SAFARI == "safari"

\* the identifiers the docstrings of both selection functions list
SupportedBrowsers == {"firefox", "chrome", "edge", "safari"}

\* identifiers a caller may pass
Browsers == SupportedBrowsers \cup {"opera"}

\* browser_client_common.create_browser
create_browser(b) ==
    IF b = names_FIREFOX THEN [ok |-> TRUE, val |-> WebDriver("Firefox")]
    ELSE IF b = names_CHROME THEN [ok |-> TRUE, val |-> WebDriver("Chrome")]
    ELSE IF b = names_EDGE THEN [ok |-> TRUE, val |-> WebDriver("Edge")]
    ELSE IF b = names_SAFARI THEN [ok |-> TRUE, val |-> WebDriver("Safari")]
    ELSE [ok |-> FALSE, exc |-> "ValueError",
          msg |-> <<"Invalid browser specified: ", b>>]

\* client_wrapper.set_test_browser: a function body that ends without a
\* return statement returns None
set_test_browser(b) ==
    IF b = "firefox" THEN [ok |-> TRUE, val |-> WebDriver("Firefox")]
    ELSE [ok |-> TRUE, val |-> None]

(***************************************************************************)
(* Page loading.                                                           *)
(***************************************************************************)
Urls == {"http://ndt/", "invalid_url", "bad url"}

MalformedUrls == {"invalid_url", "bad url"}

\* the message of the WebDriverException the browser raises for a malformed
\* URL names the URL
NotWellFormedMsg(u) == <<"Target URL ", u, " is not well-formed.">>

\* the message of any other load failure
ErrorPageMsg(u) == <<"Reached error page: ", u>>

\* the one message perform_test compares with
INVALID_URL_MSG == <<"Target URL ", "invalid_url", " is not well-formed.">>

\* outcomes of driver.get(u): a malformed URL always fails, any other URL
\* loads or fails as the network decides
GetOutcomes(u) ==
    IF u \in MalformedUrls
    THEN {[ok |-> FALSE, exc |-> "WebDriverException",
           msg |-> NotWellFormedMsg(u)]}
    ELSE {[ok |-> TRUE],
          [ok |-> FALSE, exc |-> "WebDriverException",
           msg |-> ErrorPageMsg(u)]}

(***************************************************************************)
(* The state.                                                              *)
(*   pc             position of the caller in perform_test, or "ready",    *)
(*                  "returned", "raised" when no call is in progress       *)
(*   url, browser   the arguments of the current call                      *)
(*   driver         the local variable driver of perform_test              *)
(*   result_values  self._result_values without its 'errors' entry         *)
(*   errors         the list object self._result_values['errors']          *)
(*   results        the NdtResult objects returned so far, in order        *)
(*   exc            the exception that left the last call, or None         *)
(*   ops            the browser operations of the current call, in order   *)
(*   clock          the wall clock                                         *)
(*   runs           number of perform_test calls started                   *)
(*   created        outcome of the create_browser call the caller has     *)
(*                  just made, or None                                     *)
(***************************************************************************)
Op(name, arg, ok) == [op |-> name, arg |-> arg, ok |-> ok]

Closed(d) == [d EXCEPT !.state = "closed"]

TIMEOUT_MSG == <<"Test did not complete within timeout period.">>

DriverInit ==
    /\ pc = "ready"
    /\ url = "http://ndt/"
    /\ browser = "firefox"
    /\ driver = None
    /\ result_values = InitResultValues
    /\ errors = <<>>
    /\ results = <<>>
    /\ exc = None
    /\ ops = <<>>
    /\ clock = 0
    /\ runs = 0
    /\ created = None

\* the wall clock advances while a call waits on the browser
Tick ==
    /\ pc \notin {"ready", "returned", "raised"}
    /\ clock < MaxClock
    /\ clock' = clock + 1
    /\ UNCHANGED <<harness, pc, url, browser, driver, result_values, errors,
                   results, exc, ops, runs, created>>

\* the caller selects a browser with create_browser; the function shares no
\* state with the driver object, so the model lets the caller use it before
\* its first perform_test only
CreateBrowser(b) ==
    /\ pc = "ready"
    /\ created' = [browser |-> b, outcome |-> create_browser(b)]
    /\ UNCHANGED <<harness, pc, url, browser, driver, result_values, errors,
                   results, exc, ops, clock, runs>>

\* an exception leaves perform_test: nothing else happens
Raise(e, ops1) ==
    /\ pc' = "raised"
    /\ exc' = e
    /\ ops' = ops1
    /\ UNCHANGED <<harness, url, browser, driver, result_values, errors,
                   results, clock, runs, created>>

\* perform_test, line 182: the call starts and selects the browser
Call(u, b) ==
    /\ pc \in {"ready", "returned", "raised"}
    /\ runs < MaxRuns
    /\ url' = u
    /\ browser' = b
    /\ driver' = set_test_browser(b).val
    /\ pc' = "get"
    /\ exc' = None
    /\ ops' = <<>>
    /\ runs' = runs + 1
    /\ created' = None
    /\ UNCHANGED <<harness, result_values, errors, results, clock>>

\* the early return of perform_test after a load failure, lines 187-190
LoadErrorReturn(msg, ops1) ==
    /\ errors' = Append(errors, TestError(now, msg))
    /\ driver' = Closed(driver)
    /\ ops' = Append(ops1, Op("close", "", TRUE))
    /\ results' = Append(results, NdtResult(result_values))
    /\ pc' = "returned"
    /\ UNCHANGED <<harness, url, browser, result_values, exc, clock, runs,
                   created>>

\* perform_test, lines 183-190: driver.get(url) and its except clause
Get ==
    /\ pc = "get"
    /\ IF driver = None
       THEN Raise([exc |-> "AttributeError"], ops)
       ELSE \E o \in GetOutcomes(url) :
              LET ops1 == Append(ops, Op("get", url, o.ok))
              IN  IF (~o.ok) /\ o.msg = INVALID_URL_MSG
                  THEN LoadErrorReturn(o.msg, ops1)
                  ELSE \* loaded, or the exception is dropped by the except
                       \* clause: execution goes on at line 191
                       /\ pc' = "websocketButton"
                       /\ ops' = ops1
                       /\ UNCHANGED <<harness, url, browser, driver,
                                      result_values, errors, results, exc,
                                      clock, runs, created>>

\* perform_test, line 191
ClickWebsocketButton ==
    /\ pc = "websocketButton"
    /\ \E found \in BOOLEAN :
         LET ops1 == Append(ops, Op("find_element_by_id", "websocketButton",
                                    found))
         IN  IF ~found
             THEN Raise([exc |-> "NoSuchElementException"], ops1)
             ELSE /\ pc' = "start_button"
                  /\ ops' = Append(ops1, Op("click", "websocketButton", TRUE))
                  /\ UNCHANGED <<harness, url, browser, driver, result_values,
                                 errors, results, exc, clock, runs, created>>

\* lines 193-196 with the assignment of start_time left out
ClickStartButton_NoStartTime ==
    /\ pc = "start_button"
    /\ \E found \in BOOLEAN :
         LET ops1 == Append(ops, Op("find_elements_by_xpath", "Start Test",
                                    found))
         IN  IF ~found
             THEN Raise([exc |-> "IndexError"], ops1)
             ELSE /\ pc' = "upload"
                  /\ ops' = Append(ops1, Op("click", "Start Test", TRUE))
                  /\ result_values' = result_values
                  /\ UNCHANGED <<harness, url, browser, driver, errors,
                                 results, exc, clock, runs, created>>

\* perform_test, lines 193-196
ClickStartButton ==
    /\ pc = "start_button"
    /\ \E found \in BOOLEAN :
         LET ops1 == Append(ops, Op("find_elements_by_xpath", "Start Test",
                                    found))
         IN  IF ~found
             THEN Raise([exc |-> "IndexError"], ops1)
             ELSE /\ pc' = "upload"
                  /\ ops' = Append(ops1, Op("click", "Start Test", TRUE))
                  /\ result_values' =
                         [result_values EXCEPT !.start_time = now]
                  /\ UNCHANGED <<harness, url, browser, driver, errors,
                                 results, exc, clock, runs, created>>

\* TimeoutReturn with the driver.close() of line 207 left out
TimeoutReturn_NoClose(ops1) ==
    /\ errors' = Append(errors, TestError(now, TIMEOUT_MSG))
    /\ ops' = ops1
    /\ results' = Append(results, NdtResult(result_values))
    /\ pc' = "returned"
    /\ UNCHANGED <<harness, url, browser, driver, result_values, exc, clock,
                   runs, created>>

\* the except clause of perform_test for TimeoutException, lines 203-208
TimeoutReturn(ops1) ==
    /\ errors' = Append(errors, TestError(now, TIMEOUT_MSG))
    /\ driver' = Closed(driver)
    /\ ops' = Append(ops1, Op("close", "", TRUE))
    /\ results' = Append(results, NdtResult(result_values))
    /\ pc' = "returned"
    /\ UNCHANGED <<harness, url, browser, result_values, exc, clock, runs,
                   created>>

\* WaitPhase with the assignment of the timestamp left out
WaitPhase_NoTimestamp(finder, target, missingExc, field, next) ==
    \E found \in BOOLEAN, visible \in BOOLEAN :
        LET ops1 == Append(ops, Op(finder, target, found))
            ops2 == Append(ops1, Op("wait", target, visible))
        IN  IF ~found
            THEN Raise([exc |-> missingExc], ops1)
            ELSE IF ~visible
            THEN TimeoutReturn(ops2)
            ELSE /\ pc' = next
                 /\ ops' = ops2
                 /\ UNCHANGED <<harness, url, browser, driver, result_values,
                                errors, results, exc, clock, runs, created>>

\* one phase of record_test_in_progress_values: look the element up, wait
\* until it is visible, store the time.  The lookup raises missingExc when
\* the page has no such element; the wait raises TimeoutException, which the
\* try block of perform_test (lines 198-208) catches.
WaitPhase(finder, target, missingExc, field, next) ==
    \E found \in BOOLEAN, visible \in BOOLEAN :
        LET ops1 == Append(ops, Op(finder, target, found))
            ops2 == Append(ops1, Op("wait", target, visible))
        IN  IF ~found
            THEN Raise([exc |-> missingExc], ops1)
            ELSE IF ~visible
            THEN TimeoutReturn(ops2)
            ELSE /\ pc' = next
                 /\ ops' = ops2
                 /\ result_values' = [result_values EXCEPT ![field] = now]
                 /\ UNCHANGED <<harness, url, browser, driver, errors,
                                results, exc, clock, runs, created>>

\* record_test_in_progress_values, lines 144-150
WaitUpload ==
    /\ pc = "upload"
    /\ WaitPhase("find_elements_by_xpath", "your upload speed", "IndexError",
                 "c2s_start_time", "download")

\* record_test_in_progress_values, lines 152-158
WaitDownload ==
    /\ pc = "download"
    /\ WaitPhase("find_elements_by_xpath", "your download speed",
                 "IndexError", "s2c_start_time", "results")

\* record_test_in_progress_values, lines 160-165
WaitResults ==
    /\ pc = "results"
    /\ WaitPhase("find_element_by_id", "results", "NoSuchElementException",
                 "end_time", "populate")

\* populate_metric_values: the three elements are read in the order
\* upload-speed, download-speed, latency; n of the lookups succeed, and the
\* first that fails raises NoSuchElementException after the earlier values
\* were stored
populate_metric_values(values, n, c2s, s2c, lat) ==
    [values EXCEPT
        !.c2s_throughput = IF n >= 1 THEN Unicode(c2s) ELSE @,
        !.s2c_throughput = IF n >= 2 THEN Unicode(s2c) ELSE @,
        !.latency = IF n >= 3 THEN Unicode(lat) ELSE @]

MetricElements == <<"upload-speed", "download-speed", "latency">>

\* the lookups populate_metric_values makes when n of them succeed
PopulateOps(n) ==
    [i \in 1..(IF n < 3 THEN n + 1 ELSE 3) |->
        Op("find_element_by_id", MetricElements[i], i <= n)]

\* perform_test, line 201
PopulateMetricValues ==
    /\ pc = "populate"
    /\ \E n \in 0..3, c2s \in UploadSpeedTexts, s2c \in DownloadSpeedTexts,
            lat \in LatencyTexts :
         /\ result_values' =
                populate_metric_values(result_values, n, c2s, s2c, lat)
         /\ ops' = ops \o PopulateOps(n)
         /\ IF n < 3
            THEN /\ pc' = "raised"
                 /\ exc' = [exc |-> "NoSuchElementException"]
            ELSE /\ pc' = "check"
                 /\ exc' = exc
         /\ UNCHANGED <<harness, url, browser, driver, errors, results, clock,
                        runs, created>>

\* test_indiv_metric_is_valid: the list of errors after the check of metric
test_indiv_metric_is_valid(values, errs, metric, t) ==
    IF float(values[metric]).ok
    THEN errs
    ELSE Append(errs, TestError(t, <<"illegal value shown for ", metric,
                                     ": ", values[metric].s>>))

\* check_result_metrics stopping at the first metric that is not valid
check_result_metrics_StopAtFirst(values, errs, t) ==
    LET e1 == test_indiv_metric_is_valid(values, errs, "latency", t)
        e2 == test_indiv_metric_is_valid(values, e1, "s2c_throughput", t)
    IN  IF e1 # errs THEN e1
        ELSE IF e2 # e1 THEN e2
        ELSE test_indiv_metric_is_valid(values, e2, "c2s_throughput", t)

\* check_result_metrics: the list of errors after the three checks
check_result_metrics(values, errs, t) ==
    LET e1 == test_indiv_metric_is_valid(values, errs, "latency", t)
        e2 == test_indiv_metric_is_valid(values, e1, "s2c_throughput", t)
    IN  test_indiv_metric_is_valid(values, e2, "c2s_throughput", t)

\* lines 209-213 with the browser closed a second time
CheckAndReturn_CloseTwice ==
    /\ pc = "check"
    /\ errors' = check_result_metrics(result_values, errors, now)
    /\ driver' = Closed(driver)
    /\ ops' = ops \o <<Op("close", "", TRUE), Op("close", "", TRUE)>>
    /\ results' = Append(results, NdtResult(result_values))
    /\ pc' = "returned"
    /\ UNCHANGED <<harness, url, browser, result_values, exc, clock, runs,
                   created>>

\* perform_test, lines 209-213
CheckAndReturn ==
    /\ pc = "check"
    /\ errors' = check_result_metrics(result_values, errors, now)
    /\ driver' = Closed(driver)
    /\ ops' = Append(ops, Op("close", "", TRUE))
    /\ results' = Append(results, NdtResult(result_values))
    /\ pc' = "returned"
    /\ UNCHANGED <<harness, url, browser, result_values, exc, clock, runs,
                   created>>

(***************************************************************************)
(* The harness (public_test.py) and the replay HTTP server it runs.  The   *)
(* server, its store and the module results are not part of the sources;   *)
(* they are modelled from the specification and from the calls the tests   *)
(* and main make.                                                          *)
(*   hpc          position of main, or "done"/"raised" when it has ended   *)
(*   server       the server object: the port asked of the OS, the state   *)
(*                and port of its socket, its port attribute and whether   *)
(*                shutdown was invoked                                     *)
(*   thread       the background thread: "none", "started" (launched),     *)
(*                "serving" (in the serve loop) or "terminated"            *)
(*   store        the recorded exchanges, in order                         *)
(*   served       the requests the server answered, with the responses     *)
(*   url_port     the port main read to build the URL, or None             *)
(*   hexc         the exception that left the with body of main, or None   *)
(*   load         the last call of load_url: its URL, whether driver.get   *)
(*                raised and the value returned; or None                   *)
(*   load_errors  the errors list passed to load_url                       *)
(***************************************************************************)
\* number of requests the browser sends to the server
MaxRequests == 2
\* number of errors load_url may append to its list
MaxLoadErrors == 2

\* the port that asks the OS to choose one
ANY_PORT == 0

PyInt(n) == [type |-> "int", n |-> n]

\* ports the OS may assign
EphemeralPorts == {8888, 9999}

InitServer ==
    [requested |-> None, sock |-> "none", sockport |-> None, port |-> None,
     shutdown |-> FALSE]

Exchange(method, path, response) ==
    [method |-> method, path |-> path, response |-> response]

Response(status, headers, body) ==
    [status |-> status, headers |-> headers, body |-> body]

\* the recorded session: one exchange for /a and one for /b
RecordedStore ==
    << Exchange("GET", "/a", Response(200, <<"Content-Type: text/html">>,
                                      "page a")),
       Exchange("GET", "/b", Response(200, <<"Content-Type: text/css">>,
                                      "sheet b")) >>

\* the requests a browser may send
Requests ==
    { [method |-> "GET", path |-> "/a"], [method |-> "POST", path |-> "/a"],
      [method |-> "GET", path |-> "/b"], [method |-> "GET", path |-> "/c"] }

NOT_FOUND_RESPONSE == Response(404, <<>>, "")

\* ReplayStore.match with the first exchange of a different path taking the
\* place of a missing one
match_AnyPath(st, req) ==
    IF st # <<>> THEN [found |-> TRUE, response |-> st[1].response]
    ELSE [found |-> FALSE]

\* ReplayStore.match: the first exchange with the path and method of the
\* request; without one, the only exchange recorded for the path; else
\* NOT_FOUND
match(st, req) ==
    LET exact == {i \in 1..Len(st) :
                     st[i].path = req.path /\ st[i].method = req.method}
        cands == {i \in 1..Len(st) : st[i].path = req.path}
        first(S) == CHOOSE i \in S : \A j \in S : i <= j
    IN  IF exact # {}
        THEN [found |-> TRUE, response |-> st[first(exact)].response]
        ELSE IF Cardinality(cands) = 1
        THEN [found |-> TRUE, response |-> st[first(cands)].response]
        ELSE [found |-> FALSE]

\* the response the connection handler writes back
Respond(m) == IF m.found THEN m.response ELSE NOT_FOUND_RESPONSE

\* results.TestError(message)
results_TestError(message) == [message |-> message]

\* ERROR_FAILED_TO_LOAD_URL_FORMAT % url
FailedToLoadMsg(u) == <<"Failed to load URL: ", u>>

\* browser_client_common.load_url with the errors list left alone on failure
load_url_NoError(o, u, errs) ==
    IF ~o.ok THEN [ret |-> FALSE, errors |-> errs]
    ELSE [ret |-> TRUE, errors |-> errs]

\* browser_client_common.load_url: o is the outcome of driver.get(u); the
\* value returned and the errors list afterwards
load_url(o, u, errs) ==
    IF ~o.ok
    THEN [ret |-> FALSE,
          errors |-> Append(errs, results_TestError(FailedToLoadMsg(u)))]
    ELSE [ret |-> TRUE, errors |-> errs]

HarnessInit ==
    /\ hpc = "parse"
    /\ server = InitServer
    /\ thread = "none"
    /\ store = <<>>
    /\ served = <<>>
    /\ url_port = None
    /\ hexc = None
    /\ load = None
    /\ load_errors = <<>>

\* a caller loads a URL with load_url
LoadUrl(u) ==
    /\ Len(load_errors) < MaxLoadErrors
    /\ \E o \in GetOutcomes(u) :
         /\ load' = [url |-> u, raised |-> ~o.ok,
                     ret |-> load_url(o, u, load_errors).ret]
         /\ load_errors' = load_url(o, u, load_errors).errors
    /\ UNCHANGED <<dvars, hpc, server, thread, store, served, url_port, hexc>>

\* an exception leaves the body of the with statement of main without
\* contextlib.closing: main ends at once
BodyRaise_NoClosing(e) ==
    /\ hexc' = e
    /\ hpc' = "raised"

\* an exception leaves the body of the with statement of main, lines 36-45:
\* contextlib.closing calls close() before the exception goes on
BodyRaise(e) ==
    /\ hexc' = e
    /\ hpc' = "close"

\* main, lines 31-35: the recorded session is read and parsed
MainParse ==
    /\ hpc = "parse"
    /\ \E ok \in BOOLEAN :
         IF ok THEN hpc' = "create" /\ hexc' = hexc
         ELSE hpc' = "raised" /\ hexc' = [exc |-> "IOError"]
    /\ UNCHANGED <<dvars, server, thread, store, served, url_port, load,
                   load_errors>>

\* main, lines 36-37: create_replay_server_manager loads the store
MainCreate ==
    /\ hpc = "create"
    /\ store' = RecordedStore
    /\ hpc' = "start"
    /\ UNCHANGED <<dvars, server, thread, served, url_port, hexc, load,
                   load_errors>>

\* async_start that leaves a failed bind to be found out later
AsyncStartBind_Swallow ==
    /\ hpc = "start"
    /\ \E o \in {[ok |-> TRUE, port |-> p] : p \in EphemeralPorts}
                \cup {[ok |-> FALSE]} :
         IF o.ok
         THEN server' = [server EXCEPT !.requested = PyInt(ANY_PORT),
                                       !.sock = "listening",
                                       !.sockport = PyInt(o.port)]
         ELSE server' = [server EXCEPT !.requested = PyInt(ANY_PORT)]
    /\ hpc' = "start_thread"
    /\ UNCHANGED <<dvars, thread, store, served, url_port, hexc, load,
                   load_errors>>

\* async_start (main, line 38), first half: the HTTP server is constructed
\* on port 0, which binds and listens, or fails with a socket error that
\* the caller gets
AsyncStartBind ==
    /\ hpc = "start"
    /\ \E o \in {[ok |-> TRUE, port |-> p] : p \in EphemeralPorts}
                \cup {[ok |-> FALSE]} :
         IF o.ok
         THEN /\ server' = [server EXCEPT !.requested = PyInt(ANY_PORT),
                                          !.sock = "listening",
                                          !.sockport = PyInt(o.port)]
              /\ hpc' = "start_thread"
              /\ hexc' = hexc
         ELSE /\ server' = [server EXCEPT !.requested = PyInt(ANY_PORT)]
              /\ BodyRaise([exc |-> "socket.error"])
    /\ UNCHANGED <<dvars, thread, store, served, url_port, load, load_errors>>

\* async_start that returns once the thread is launched and leaves the port
\* attribute unset
AsyncStartServe_NoPort ==
    /\ hpc = "start_thread"
    /\ thread' = "started"
    /\ hpc' = "port"
    /\ UNCHANGED <<dvars, server, store, served, url_port, hexc, load,
                   load_errors>>

\* async_start, second half: the port attribute takes the port of the bound
\* socket, the background thread is launched on the serve loop, and the
\* call returns
AsyncStartServe ==
    /\ hpc = "start_thread"
    /\ server' = [server EXCEPT !.port = server.sockport]
    /\ thread' = "started"
    /\ hpc' = "port"
    /\ UNCHANGED <<dvars, store, served, url_port, hexc, load, load_errors>>

\* main, line 40: the URL is built from the port attribute; formatting None
\* with %d raises TypeError
MainReadPort ==
    /\ hpc = "port"
    /\ IF server.port = None
       THEN BodyRaise([exc |-> "TypeError"]) /\ url_port' = url_port
       ELSE url_port' = server.port /\ hpc' = "driver" /\ hexc' = hexc
    /\ UNCHANGED <<dvars, server, thread, store, served, load, load_errors>>

\* main, line 44: the browser driver is created, or fails
MainBanjoDriver ==
    /\ hpc = "driver"
    /\ \E ok \in BOOLEAN :
         IF ok THEN hpc' = "sleep" /\ hexc' = hexc
         ELSE BodyRaise([exc |-> "WebDriverException"])
    /\ UNCHANGED <<dvars, server, thread, store, served, url_port, load,
                   load_errors>>

\* main, line 45: the sleep ends and the with body is left, or the sleep is
\* interrupted
MainSleep ==
    /\ hpc = "sleep"
    /\ \E ok \in BOOLEAN :
         IF ok THEN hpc' = "close" /\ hexc' = hexc
         ELSE BodyRaise([exc |-> "KeyboardInterrupt"])
    /\ UNCHANGED <<dvars, server, thread, store, served, url_port, load,
                   load_errors>>

\* how main ends once close() has returned: normally, or with the exception
\* of the body
MainEnd == IF hexc = None THEN "done" ELSE "raised"

\* stop() that returns without waiting for the serve loop to end
StopShutdown_NoWait ==
    /\ hpc = "close"
    /\ IF thread = "none"
       THEN server' = server
       ELSE server' = [server EXCEPT !.shutdown = TRUE]
    /\ hpc' = MainEnd
    /\ UNCHANGED <<dvars, thread, store, served, url_port, hexc, load,
                   load_errors>>

\* close() of the manager, which is stop(), first half: shutdown is invoked
\* on the HTTP server; a server that never started has nothing to stop
StopShutdown ==
    /\ hpc = "close"
    /\ IF thread = "none"
       THEN server' = server /\ hpc' = MainEnd
       ELSE server' = [server EXCEPT !.shutdown = TRUE] /\ hpc' = "stop_wait"
    /\ UNCHANGED <<dvars, thread, store, served, url_port, hexc, load,
                   load_errors>>

\* stop(), second half: the call blocks until the serve loop has ended,
\* closes the listening socket and returns
StopWait ==
    /\ hpc = "stop_wait"
    /\ thread = "terminated"
    /\ server' = [server EXCEPT !.sock = "closed"]
    /\ hpc' = MainEnd
    /\ UNCHANGED <<dvars, thread, store, served, url_port, hexc, load,
                   load_errors>>

\* the background thread enters the serve loop
ServeForever ==
    /\ thread = "started"
    /\ thread' = "serving"
    /\ UNCHANGED <<dvars, hpc, server, store, served, url_port, hexc, load,
                   load_errors>>

\* the serve loop accepts a connection and its handler answers the request
\* from the store
HandleRequest(req) ==
    /\ thread = "serving"
    /\ server.sock = "listening"
    /\ Len(served) < MaxRequests
    /\ served' = Append(served, [request |-> req,
                                 response |-> Respond(match(store, req))])
    /\ UNCHANGED <<dvars, hpc, server, thread, store, url_port, hexc, load,
                   load_errors>>

\* the serve loop sees, between two connections, that shutdown was invoked,
\* and ends
ServeExit ==
    /\ thread = "serving"
    /\ server.shutdown
    /\ thread' = "terminated"
    /\ UNCHANGED <<dvars, hpc, server, store, served, url_port, hexc, load,
                   load_errors>>

Init == DriverInit /\ HarnessInit

Next ==
    \/ Tick
    \/ \E b \in Browsers : CreateBrowser(b)
    \/ \E u \in Urls, b \in Browsers : Call(u, b)
    \/ Get
    \/ ClickWebsocketButton
    \/ ClickStartButton
    \/ WaitUpload
    \/ WaitDownload
    \/ WaitResults
    \/ PopulateMetricValues
    \/ CheckAndReturn

Spec == Init /\ [][Next]_vars

HarnessNext ==
    \/ \E u \in Urls : LoadUrl(u)
    \/ MainParse
    \/ MainCreate
    \/ AsyncStartBind
    \/ AsyncStartServe
    \/ MainReadPort
    \/ MainBanjoDriver
    \/ MainSleep
    \/ StopShutdown
    \/ StopWait
    \/ ServeForever
    \/ \E req \in Requests : HandleRequest(req)
    \/ ServeExit

HarnessSpec == Init /\ [][HarnessNext]_vars

(***************************************************************************)
(* Vocabulary of the properties.                                           *)
(***************************************************************************)
UPLOAD == "your upload speed"
DOWNLOAD == "your download speed"
RESULTS == "results"

Metrics == {"latency", "s2c_throughput", "c2s_throughput"}

Ended == pc \in {"returned", "raised"}

\* the current call did the browser operation o
Did(o) == \E i \in 1..Len(ops) : ops[i] = o

\* driver.get raised in the current call
LoadFailed == ops # <<>> /\ ops[1].op = "get" /\ ~ops[1].ok

\* a wait of the current call ran into its timeout
TimedOut == \E i \in 1..Len(ops) : ops[i].op = "wait" /\ ~ops[i].ok

\* a lookup of the current call did not find its element
MissingElement ==
    \E i \in 1..Len(ops) :
        /\ ops[i].op \in {"find_element_by_id", "find_elements_by_xpath"}
        /\ ~ops[i].ok

\* the step being taken runs into the timeout of a wait
TimeoutStep ==
    \E i \in (Len(ops) + 1)..Len(ops') : ops'[i].op = "wait" /\ ~ops'[i].ok

\* the NdtResult the last call returned
LastResult == results[Len(results)]

IsSet(v) == v.type = "datetime"

(***************************************************************************)
(* C1: whenever one of the three phase waits runs into its timeout, the    *)
(* same step appends one TestError with the timeout message to the errors  *)
(* list, closes the browser and returns an NdtResult built from the values *)
(* recorded so far; no exception leaves perform_test.                      *)
(***************************************************************************)
C1_TimeoutIsRecordedAndReturned ==
    [][TimeoutStep =>
          /\ errors' = Append(errors, TestError(Datetime(clock), TIMEOUT_MSG))
          /\ driver'.state = "closed"
          /\ ops'[Len(ops')].op = "close"
          /\ pc' = "returned"
          /\ exc' = None
          /\ result_values' = result_values
          /\ results' = Append(results, NdtResult(result_values))]_vars

\* a call returned after the wait for the results element timed out
C1_Witness ==
    /\ pc = "returned"
    /\ Did(Op("wait", UPLOAD, TRUE))
    /\ Did(Op("wait", DOWNLOAD, TRUE))
    /\ Did(Op("wait", RESULTS, FALSE))
    /\ errors[Len(errors)].message = TIMEOUT_MSG
    /\ IsSet(LastResult.s2c_start_time)
    /\ driver.state = "closed"

(***************************************************************************)
(* C2: after any failure of driver.get (malformed URL or other load        *)
(* failure) perform_test records the error and returns at once: the only   *)
(* browser operation after the failed get is the close, and the call has   *)
(* returned with the load error last in the errors list.                   *)
(***************************************************************************)
C2_LoadFailureShortCircuits ==
    LoadFailed =>
        /\ pc = "returned"
        /\ Len(ops) = 2
        /\ ops[2].op = "close"
        /\ errors # <<>>
        /\ errors[Len(errors)].message \in
               {NotWellFormedMsg(url), ErrorPageMsg(url)}

(***************************************************************************)
(* C3: whenever a call of perform_test that created a browser has ended,   *)
(* by a return or by an exception, that browser is closed.                 *)
(***************************************************************************)
C3_BrowserClosedOnEveryExit ==
    (Ended /\ driver # None) => driver.state = "closed"

(***************************************************************************)
(* C4: a run with a supported browser, once its browser is selected, never *)
(* ends with an exception reaching the caller; when the load failed, a     *)
(* wait timed out or an element was missing, the run ends by returning a   *)
(* result whose errors list holds the error.                               *)
(***************************************************************************)
C4_EveryRunReturnsResult ==
    (runs > 0 /\ browser \in SupportedBrowsers /\ driver # None) =>
        /\ pc # "raised"
        /\ (Ended /\ (LoadFailed \/ TimedOut \/ MissingElement)) =>
               (pc = "returned" /\ errors # <<>>)

(***************************************************************************)
(* C5: the phases are observed in order.  A wait for the download element  *)
(* is made only after the wait for the upload element succeeded in the     *)
(* same call and with c2s_start_time set; a wait for the results element   *)
(* is made only after the wait for the download element succeeded and with *)
(* s2c_start_time set; while the caller is about to wait for a phase, the  *)
(* timestamp of the phase before is set.                                   *)
(***************************************************************************)
C5_PhasesInOrder ==
    /\ \A i \in 1..Len(ops) :
          /\ (ops[i].op = "wait" /\ ops[i].arg = DOWNLOAD) =>
                /\ \E j \in 1..(i - 1) : ops[j] = Op("wait", UPLOAD, TRUE)
                /\ IsSet(result_values.c2s_start_time)
          /\ (ops[i].op = "wait" /\ ops[i].arg = RESULTS) =>
                /\ \E j \in 1..(i - 1) : ops[j] = Op("wait", DOWNLOAD, TRUE)
                /\ IsSet(result_values.s2c_start_time)
    /\ pc = "download" => IsSet(result_values.c2s_start_time)
    /\ pc = "results" => IsSet(result_values.s2c_start_time)
    /\ pc = "populate" => IsSet(result_values.end_time)

\* the first call on the driver waits for the results element
C5_Witness ==
    /\ runs = 1
    /\ Did(Op("wait", UPLOAD, TRUE))
    /\ Did(Op("wait", DOWNLOAD, TRUE))
    /\ Did(Op("wait", RESULTS, TRUE))
    /\ pc = "populate"

\* the metric texts of values are all three numeric
AllNumeric(values) ==
    \A m \in Metrics : values[m].type = "unicode" /\ float(values[m]).ok

\* the current call loaded the page, saw all three phases and read the three
\* metrics, all numeric, and has returned
FullSuccessfulRun ==
    /\ pc = "returned"
    /\ Did(Op("get", url, TRUE))
    /\ Did(Op("wait", UPLOAD, TRUE))
    /\ Did(Op("wait", DOWNLOAD, TRUE))
    /\ Did(Op("wait", RESULTS, TRUE))
    /\ Did(Op("find_element_by_id", "latency", TRUE))
    /\ AllNumeric(LastResult)

\* the four timestamps of r are set and in order
TimestampsOrdered(r) ==
    /\ IsSet(r.start_time) /\ IsSet(r.c2s_start_time)
    /\ IsSet(r.s2c_start_time) /\ IsSet(r.end_time)
    /\ r.start_time.t <= r.c2s_start_time.t
    /\ r.c2s_start_time.t <= r.s2c_start_time.t
    /\ r.s2c_start_time.t <= r.end_time.t

(***************************************************************************)
(* C6: the result of a full successful run (page loaded, three waits       *)
(* succeeded, three numeric metric texts) has its four timestamps set with *)
(* start_time <= c2s_start_time <= s2c_start_time <= end_time, and its     *)
(* errors list is empty.                                                   *)
(***************************************************************************)
C6_SuccessfulRunResult ==
    FullSuccessfulRun =>
        /\ TimestampsOrdered(LastResult)
        /\ ResultErrors(Len(results)) = <<>>

\* C6 for the first run of a driver object, which holds
C6_OnFreshDriver ==
    (FullSuccessfulRun /\ runs = 1) =>
        /\ TimestampsOrdered(LastResult)
        /\ ResultErrors(Len(results)) = <<>>

\* the upload wait of the current call succeeded, its download wait timed
\* out, and the call has returned
DownloadTimedOut ==
    /\ pc = "returned"
    /\ Did(Op("wait", UPLOAD, TRUE))
    /\ Did(Op("wait", DOWNLOAD, FALSE))

(***************************************************************************)
(* C7: the result of a run whose upload wait succeeded and whose download  *)
(* wait timed out has exactly one error, the timeout error, has            *)
(* s2c_start_time and end_time unset, and the browser is closed.           *)
(***************************************************************************)
C7_DownloadTimeoutResult ==
    DownloadTimedOut =>
        /\ Len(ResultErrors(Len(results))) = 1
        /\ ResultErrors(Len(results))[1].message = TIMEOUT_MSG
        /\ LastResult.s2c_start_time = None
        /\ LastResult.end_time = None
        /\ driver.state = "closed"

\* C7 for the first run of a driver object, which holds
C7_OnFreshDriver ==
    (DownloadTimedOut /\ runs = 1) =>
        /\ Len(ResultErrors(Len(results))) = 1
        /\ ResultErrors(Len(results))[1].message = TIMEOUT_MSG
        /\ LastResult.s2c_start_time = None
        /\ LastResult.end_time = None
        /\ driver.state = "closed"

\* the message of the error test_indiv_metric_is_valid reports for metric m
IllegalValueMsg(values, m) ==
    <<"illegal value shown for ", m, ": ", values[m].s>>

\* the errors a step adds to the list
NewErrors == SubSeq(errors', Len(errors) + 1, Len(errors'))

OnlyLatencyInvalid ==
    /\ pc = "returned"
    /\ Did(Op("find_element_by_id", "latency", TRUE))
    /\ ~float(LastResult.latency).ok
    /\ float(LastResult.s2c_throughput).ok
    /\ float(LastResult.c2s_throughput).ok

\* the errors of the list that report a metric
MetricErrors(errs) ==
    {i \in 1..Len(errs) : errs[i].message[1] = "illegal value shown for "}

(***************************************************************************)
(* C9: the result of a run whose latency text is not numeric and whose     *)
(* throughput texts are numeric holds exactly one metric error, the one    *)
(* for latency, and its c2s_throughput and s2c_throughput are the numbers  *)
(* parsed from the texts, not the texts.                                   *)
(***************************************************************************)
C9_LatencyInvalidResult ==
    OnlyLatencyInvalid =>
        /\ Cardinality(MetricErrors(ResultErrors(Len(results)))) = 1
        /\ \A i \in MetricErrors(ResultErrors(Len(results))) :
              ResultErrors(Len(results))[i].message[2] = "latency"
        /\ LastResult.c2s_throughput = float(result_values.c2s_throughput).val
        /\ LastResult.s2c_throughput = float(result_values.s2c_throughput).val

\* the part of C9 that holds for the first run of a driver object: exactly
\* one metric error, for latency, and the throughputs hold the page's texts
C9_OnFreshDriver ==
    (OnlyLatencyInvalid /\ runs = 1) =>
        /\ Cardinality(MetricErrors(ResultErrors(Len(results)))) = 1
        /\ \A i \in MetricErrors(ResultErrors(Len(results))) :
              ResultErrors(Len(results))[i].message[2] = "latency"
        /\ LastResult.c2s_throughput.type = "unicode"
        /\ LastResult.s2c_throughput.type = "unicode"

\* what the claim asks of a selection function f applied to identifier b:
\* a browser for a supported identifier, an error for any other
SelectionAsSpecified(b, outcome) ==
    IF b \in SupportedBrowsers
    THEN outcome.ok /\ outcome.val.type = "WebDriver"
    ELSE ~outcome.ok

(***************************************************************************)
(* C10: both selection functions return a browser for each of 'firefox',   *)
(* 'chrome', 'edge', 'safari' and fail for any other identifier at         *)
(* selection time: create_browser whenever it was called, and              *)
(* set_test_browser whenever perform_test has passed its line 182, where   *)
(* for an unsupported identifier no run state exists (no call goes on to   *)
(* driver.get).                                                            *)
(***************************************************************************)
C10_BrowserSelection ==
    /\ created # None =>
           SelectionAsSpecified(created.browser, created.outcome)
    /\ pc = "get" =>
           /\ browser \in SupportedBrowsers
           /\ driver.type = "WebDriver"

\* the part of C10 that holds: create_browser
C10_CreateBrowser ==
    created # None => SelectionAsSpecified(created.browser, created.outcome)

(***************************************************************************)
(* Vocabulary of the properties of the harness.                            *)
(***************************************************************************)
SOCKET_ERROR == [exc |-> "socket.error"]

\* async_start has returned to its caller without an exception, and stop
\* has not been called yet
AsyncStartReturned ==
    \/ hpc \in {"port", "driver", "sleep"}
    \/ hpc = "close" /\ hexc # SOCKET_ERROR

\* the construction of the HTTP server was tried and failed
BindFailed == server.requested # None /\ server.sock = "none"

\* stop has returned after a start that succeeded
StopReturned == hpc \in {"done", "raised"} /\ thread # "none"

C12_BindFailureRaises ==
    BindFailed =>
        /\ hexc = SOCKET_ERROR
        /\ hpc \in {"close", "raised"}
        /\ thread = "none"
        /\ served = <<>>
        /\ server.port = None
        /\ url_port = None

\* main has ended with the socket error of a failed bind
C12_Witness ==
    /\ hpc = "raised"
    /\ hexc = SOCKET_ERROR
    /\ BindFailed

(***************************************************************************)
(* C13: shutdown is not invoked while async_start has returned and stop    *)
(* has not been called; stop invokes it; and once stop has returned the    *)
(* serve loop has ended, the listening socket is closed and no request is  *)
(* answered any more.                                                      *)
(***************************************************************************)
C13_ShutdownOrdering ==
    /\ [](/\ AsyncStartReturned => ~server.shutdown
          /\ hpc = "stop_wait" => server.shutdown
          /\ StopReturned => /\ server.shutdown
                             /\ thread = "terminated"
                             /\ server.sock = "closed")
    /\ [][StopReturned => served' = served]_vars

\* stop has returned on a server that answered a request
C13_Witness ==
    /\ hpc = "done"
    /\ thread = "terminated"
    /\ server.sock = "closed"
    /\ served # <<>>

(***************************************************************************)
(* C14: main reads the port only after start has returned, so the port it  *)
(* read is the port of the bound socket of a launched server; and when     *)
(* main has ended, normally or with an exception, no server thread runs    *)
(* and no server socket is open.                                           *)
(***************************************************************************)
C14_ServerScopedToRun ==
    /\ url_port # None =>
           /\ thread # "none"
           /\ url_port = server.sockport
    /\ hpc \in {"done", "raised"} =>
           /\ thread \in {"none", "terminated"}
           /\ server.sock \in {"none", "closed"}

\* main has ended with an exception of its with body after the server had
\* started, and the server is closed
C14_Witness ==
    /\ hpc = "raised"
    /\ hexc = [exc |-> "WebDriverException"]
    /\ url_port # None
    /\ thread = "terminated"
    /\ server.sock = "closed"

TimestampFields ==
    {"start_time", "c2s_start_time", "s2c_start_time", "end_time"}

(***************************************************************************)
(* C15: runs are isolated and results immutable.  No step changes the      *)
(* fields or the errors list of a result returned earlier, and every call  *)
(* of perform_test starts with no errors and no values from an earlier     *)
(* run, so that its result holds only what the run recorded.               *)
(***************************************************************************)
C15_RunsIsolated ==
    /\ [][\A i \in 1..Len(results) :
             /\ results'[i] = results[i]
             /\ ResultErrors(i)' = ResultErrors(i)]_vars
    /\ [](pc = "get" => (errors = <<>> /\ result_values = InitResultValues))

(***************************************************************************)
(* C16: a timestamp that is set is never assigned another value and never  *)
(* reset to null, whatever operations are made on the driver.              *)
(***************************************************************************)
C16_TimestampsSetOnce ==
    [][\A f \in TimestampFields :
          IsSet(result_values[f]) => result_values'[f] = result_values[f]]_vars

(***************************************************************************)
(* C17: every answered request for /a got the response recorded for /a,    *)
(* status, headers and body; every answered request for /c got the         *)
(* not-found response; equal requests got equal responses; and the store   *)
(* is the recorded session, unchanged, whenever a request was answered.    *)
(***************************************************************************)
C17_ReplayLookup ==
    /\ \A i \in 1..Len(served) :
          /\ served[i].request.path = "/a" =>
                 served[i].response = RecordedStore[1].response
          /\ served[i].request.path = "/c" =>
                 served[i].response = NOT_FOUND_RESPONSE
          /\ \A j \in 1..Len(served) :
                 served[j].request = served[i].request =>
                     served[j].response = served[i].response
    /\ served # <<>> => store = RecordedStore

\* a request for /a and then a request for /c were answered
C17_Witness ==
    /\ Len(served) = 2
    /\ served[1].request.path = "/a"
    /\ served[1].response.status = 200
    /\ served[2].request.path = "/c"
    /\ served[2].response.status = 404

\* the step is a call of load_url
LoadUrlStep == load' # load \/ load_errors' # load_errors

(***************************************************************************)
(* C18: a call of load_url returns True exactly when driver.get raised no  *)
(* WebDriverException; then the errors list is unchanged; otherwise the    *)
(* list is the old list, in order, with one 'Failed to load URL' error     *)
(* naming the URL appended, and the call returns False, not the exception. *)
(***************************************************************************)
C18_LoadUrlFrame ==
    [][LoadUrlStep =>
          /\ load'.ret = ~load'.raised
          /\ load'.raised =>
                 /\ Len(load_errors') = Len(load_errors) + 1
                 /\ SubSeq(load_errors', 1, Len(load_errors)) = load_errors
                 /\ load_errors'[Len(load_errors')].message =
                        <<"Failed to load URL: ", load'.url>>
          /\ ~load'.raised => load_errors' = load_errors]_vars

\* a second failed load added its error after the first
C18_Witness ==
    /\ load # None
    /\ load.raised
    /\ ~load.ret
    /\ Len(load_errors) = 2
    /\ load_errors[2].message = <<"Failed to load URL: ", load.url>>

(***************************************************************************)
(* C19: during the first run on a new driver the timestamps that are set   *)
(* are a prefix of start_time, c2s_start_time, s2c_start_time, end_time,   *)
(* and a metric element is looked up, and a metric value stored, only      *)
(* with end_time set.                                                      *)
(***************************************************************************)
C19_TimestampPrefix ==
    runs <= 1 =>
        /\ IsSet(result_values.c2s_start_time) =>
               IsSet(result_values.start_time)
        /\ IsSet(result_values.s2c_start_time) =>
               IsSet(result_values.c2s_start_time)
        /\ IsSet(result_values.end_time) =>
               IsSet(result_values.s2c_start_time)
        /\ (\/ \E i \in 1..Len(ops) : ops[i].arg \in
                   {MetricElements[k] : k \in 1..Len(MetricElements)}
            \/ \E m \in Metrics : result_values[m] # None) =>
               IsSet(result_values.end_time)

\* the first run has read the three metrics
C19_Witness ==
    /\ runs = 1
    /\ pc = "check"
    /\ IsSet(result_values.end_time)
    /\ result_values.latency # None

\* the close operations of the current call
Closes == {i \in 1..Len(ops) : ops[i].op = "close"}

(***************************************************************************)
(* C20: when perform_test has returned an NdtResult, the call closed the   *)
(* browser exactly once, and the close is the last browser operation of    *)
(* the call.                                                               *)
(***************************************************************************)
C20_ClosedOnceBeforeReturn ==
    pc = "returned" =>
        /\ Cardinality(Closes) = 1
        /\ ops[Len(ops)].op = "close"
        /\ driver.state = "closed"

\* a run that read its metrics has returned
C20_Witness ==
    /\ pc = "returned"
    /\ Did(Op("find_element_by_id", "latency", TRUE))
    /\ ops[Len(ops)].op = "close"

====
